---- MODULE Spec2Model ----
(***************************************************************************)
(* Model of the Missing File Scanner (src/missing_file_scanner.py): the    *)
(* background worker FileScannerThread, the signals it emits, and the      *)
(* MissingFileScanner window that consumes them.                           *)
(*                                                                         *)
(* Strings are sequences of one-character strings, so that lower(),        *)
(* strip(), split(','), `in`, os.path.basename, os.path.splitext,          *)
(* os.path.join and os.path.normpath (posixpath flavour) are computed      *)
(* character by character.                                                 *)
(***************************************************************************)
EXTENDS Integers, Sequences, FiniteSets, TLC

VARIABLES
    fs_tree,          \* which directory tree is on disk (index into Trees)
    fs_access,        \* per directory: what listing it does right now
    fs_changes,       \* number of filesystem changes made by the environment
    pc,               \* position of the worker thread inside run()
    root_folder,      \* FileScannerThread.root_folder
    filename,         \* FileScannerThread.filename
    exclusion_list,   \* FileScannerThread.exclusion_list
    missing_folders,  \* FileScannerThread.missing_folders
    all_dirs,         \* run(): all_dirs
    total_dirs,       \* run(): total_dirs
    i,                \* run(): loop index of enumerate(all_dirs)
    outcome,          \* run(): what each loop iteration did, in order
    events,           \* signals emitted by the current worker, in order
    delivered,        \* how many of them the window's slots have handled
    scans,            \* number of workers started so far
    results_folders,  \* ClickableTextEdit.missing_folders
    results_text,     \* what the results box shows
    scan_enabled,     \* scan_button.isEnabled()
    progress_value,   \* progress_bar.value()
    progress_visible, \* progress_bar.isVisible()
    status,           \* status_label text (kind, number)
    dialog,           \* the modal message box that is open, "none" when none is
    last_run,         \* history: the request and the report of the run before
    arg,              \* pure-function specifications: the inputs drawn
    ret               \* pure-function specifications: the value returned

vars == <<fs_tree, fs_access, fs_changes, pc, root_folder, filename,
          exclusion_list, missing_folders, all_dirs, total_dirs, i, outcome,
          events, delivered, scans, results_folders, results_text,
          scan_enabled, progress_value, progress_visible, status, dialog,
          last_run, arg, ret>>

(***************************************************************************)
(* Bounds of the model.                                                    *)
(***************************************************************************)
MaxScans == 2
MaxFsChanges == 1
MaxTerms == 2
MaxEntries == 2

(***************************************************************************)
(* Strings.                                                                *)
(***************************************************************************)
LowerMap ==
    [c \in {"A","B","C","D","E","F","G","H","I","J","K","L","M","N","O","P",
            "Q","R","S","T","U","V","W","X","Y","Z"} |->
        CASE c = "A" -> "a" [] c = "B" -> "b" [] c = "C" -> "c"
          [] c = "D" -> "d" [] c = "E" -> "e" [] c = "F" -> "f"
          [] c = "G" -> "g" [] c = "H" -> "h" [] c = "I" -> "i"
          [] c = "J" -> "j" [] c = "K" -> "k" [] c = "L" -> "l"
          [] c = "M" -> "m" [] c = "N" -> "n" [] c = "O" -> "o"
          [] c = "P" -> "p" [] c = "Q" -> "q" [] c = "R" -> "r"
          [] c = "S" -> "s" [] c = "T" -> "t" [] c = "U" -> "u"
          [] c = "V" -> "v" [] c = "W" -> "w" [] c = "X" -> "x"
          [] c = "Y" -> "y" [] c = "Z" -> "z"]

\* the letters, which have a case, and the characters str.lower() looks
\* through when it decides whether a capital sigma ends a word
Cased ==
    DOMAIN LowerMap \cup {LowerMap[c] : c \in DOMAIN LowerMap}
        \cup {"Σ", "σ", "ς"}
CaseIgnorable == {".", "'", ":"}

\* the lower case of the capital sigma at s[k]: the final form when a letter
\* precedes it and none follows, case-ignorable characters looked through
handle_capital_sigma(s, k) ==
    LET before == {j \in 1..(k - 1) : s[j] \notin CaseIgnorable}
        after == {j \in (k + 1)..Len(s) : s[j] \notin CaseIgnorable}
        last_before == CHOOSE j \in before : \A m \in before : m <= j
        first_after == CHOOSE j \in after : \A m \in after : j <= m
        final_sigma ==
            /\ before # {}
            /\ s[last_before] \in Cased
            /\ after = {} \/ s[first_after] \notin Cased
    IN  IF final_sigma THEN "ς" ELSE "σ"

\* str.lower(): character by character, but for the capital sigma
Lower(s) ==
    [k \in 1..Len(s) |->
        IF s[k] \in DOMAIN LowerMap THEN LowerMap[s[k]]
        ELSE IF s[k] = "Σ" THEN handle_capital_sigma(s, k)
        ELSE s[k]]

Whitespace == {" ", "\t"}

RECURSIVE LStrip(_)
LStrip(s) ==
    IF s # <<>> /\ Head(s) \in Whitespace THEN LStrip(Tail(s)) ELSE s

RECURSIVE RStrip(_)
RStrip(s) ==
    IF s # <<>> /\ s[Len(s)] \in Whitespace
    THEN RStrip(SubSeq(s, 1, Len(s) - 1))
    ELSE s

\* str.strip()
Strip(s) == RStrip(LStrip(s))

\* Python's `sub in s`
Contains(s, sub) ==
    \E k \in 0..(Len(s) - Len(sub)) : SubSeq(s, k + 1, k + Len(sub)) = sub

\* str.rfind(ch), 1-based; 0 when ch does not occur
RFind(s, ch) ==
    IF \E k \in 1..Len(s) : s[k] = ch
    THEN CHOOSE k \in 1..Len(s) :
            s[k] = ch /\ \A m \in (k + 1)..Len(s) : s[m] # ch
    ELSE 0

\* str.split(sep) for a one-character separator
RECURSIVE SplitAcc(_, _, _)
SplitAcc(s, sep, cur) ==
    IF s = <<>> THEN <<cur>>
    ELSE IF Head(s) = sep THEN <<cur>> \o SplitAcc(Tail(s), sep, <<>>)
    ELSE SplitAcc(Tail(s), sep, Append(cur, Head(s)))

Split(s, sep) == SplitAcc(s, sep, <<>>)

\* sep.join(parts)
RECURSIVE JoinWith(_, _)
JoinWith(parts, sep) ==
    IF parts = <<>> THEN <<>>
    ELSE IF Len(parts) = 1 THEN parts[1]
    ELSE parts[1] \o <<sep>> \o JoinWith(Tail(parts), sep)

Sep == "/"

\* os.path.basename
basename(p) == SubSeq(p, RFind(p, Sep) + 1, Len(p))

\* os.path.splitext(p)[0]: the last dot splits, leading dots of the name do not
RECURSIVE AllDots(_, _, _)
AllDots(p, from, to) ==
    IF from > to THEN TRUE
    ELSE IF p[from] # "." THEN FALSE
    ELSE AllDots(p, from + 1, to)

splitext_root(p) ==
    LET sepIndex == RFind(p, Sep)
        dotIndex == RFind(p, ".")
    IN  IF dotIndex > sepIndex /\ ~AllDots(p, sepIndex + 1, dotIndex - 1)
        THEN SubSeq(p, 1, dotIndex - 1)
        ELSE p

\* os.path.join(a, b)
join(a, b) ==
    IF b # <<>> /\ Head(b) = Sep THEN b
    ELSE IF a = <<>> \/ a[Len(a)] = Sep THEN a \o b
    ELSE a \o <<Sep>> \o b

\* os.path.normpath
RECURSIVE NormComps(_, _, _)
NormComps(comps, initial_slashes, new_comps) ==
    IF comps = <<>> THEN new_comps
    ELSE LET comp == Head(comps)
             n == Len(new_comps)
         IN  IF comp = <<>> \/ comp = <<".">>
             THEN NormComps(Tail(comps), initial_slashes, new_comps)
             ELSE IF \/ comp # <<".", ".">>
                     \/ (initial_slashes = 0 /\ n = 0)
                     \/ (n > 0 /\ new_comps[n] = <<".", ".">>)
             THEN NormComps(Tail(comps), initial_slashes, Append(new_comps, comp))
             ELSE IF n > 0
             THEN NormComps(Tail(comps), initial_slashes, SubSeq(new_comps, 1, n - 1))
             ELSE NormComps(Tail(comps), initial_slashes, new_comps)

normpath(path) ==
    IF path = <<>> THEN <<".">>
    ELSE LET starts(k) == Len(path) >= k /\ \A m \in 1..k : path[m] = Sep
             initial_slashes ==
                 IF ~starts(1) THEN 0
                 ELSE IF starts(2) /\ ~starts(3) THEN 2 ELSE 1
             body == JoinWith(NormComps(Split(path, Sep), initial_slashes, <<>>), Sep)
             res == [k \in 1..initial_slashes |-> Sep] \o body
         IN  IF res = <<>> THEN <<".">> ELSE res

(***************************************************************************)
(* The filesystem.  A tree is a sequence of directory nodes; node 1 is the *)
(* root and lives at the relative path r.  entries is what scandir and     *)
(* listdir return for the directory, in the order they return it: the      *)
(* names of its regular files and of its sub-directories.                  *)
(***************************************************************************)
F(name) == [name |-> name, kind |-> "file"]
D(name) == [name |-> name, kind |-> "dir"]
Node(parent, name, entries) ==
    [parent |-> parent, name |-> name, entries |-> entries]

s_r == <<"r">>
s_A == <<"A">>
s_B == <<"B">>
s_C == <<"C">>
s_x_txt == <<"x", ".", "t", "x", "t">>
s_x_log == <<"x", ".", "l", "o", "g">>
s_Node == <<"N", "o", "d", "e">>
s_sub == <<"s", "u", "b">>
s_data == <<"d", "a", "t", "a">>
s_a_t == <<"a", ".", "t">>
s_bak == <<"b", "a", "k">>
s_Config_TXT == <<"C", "o", "n", "f", "i", "g", ".", "T", "X", "T">>
s_config_txt == <<"c", "o", "n", "f", "i", "g", ".", "t", "x", "t">>
s_myconfig_txt_bak ==
    <<"m", "y", "c", "o", "n", "f", "i", "g", ".", "t", "x", "t", ".", "b", "a", "k">>
s_ASigma == <<"A", "Σ">>
s_ASigma_t == <<"A", "Σ", ".", "t">>

\* r/{A/{x.txt}, B/{x.log}, C/{}}
TreeABC ==
    << Node(0, s_r, <<D(s_A), D(s_B), D(s_C)>>),
       Node(1, s_A, <<F(s_x_txt)>>),
       Node(1, s_B, <<F(s_x_log)>>),
       Node(1, s_C, <<>>) >>

\* r/{}
TreeEmpty == << Node(0, s_r, <<>>) >>

\* r/{Node/{sub/{}, a.t}, data/{x.txt/{}}}: x.txt in data is a directory
TreeNested ==
    << Node(0, s_r, <<D(s_Node), D(s_data)>>),
       Node(1, s_Node, <<D(s_sub), F(s_a_t)>>),
       Node(2, s_sub, <<>>),
       Node(1, s_data, <<D(s_x_txt)>>),
       Node(4, s_x_txt, <<>>) >>

\* r/{Config.TXT, bak/{myconfig.txt.bak}}
TreeConfig ==
    << Node(0, s_r, <<F(s_Config_TXT), D(s_bak)>>),
       Node(1, s_bak, <<F(s_myconfig_txt_bak)>>) >>

Trees == <<TreeABC, TreeEmpty, TreeNested, TreeConfig>>

Access == {"ok", "PermissionError", "OSError"}

RECURSIVE DiskPath(_, _)
DiskPath(t, n) ==
    IF t[n].parent = 0 THEN t[n].name
    ELSE join(DiskPath(t, t[n].parent), t[n].name)

\* the directory node a path names, 0 when it names no directory
ResolveDir(t, p) ==
    LET real == normpath(p)
        named == {n \in DOMAIN t : DiskPath(t, n) = real}
    IN  IF named # {} THEN CHOOSE n \in named : TRUE ELSE 0

\* os.path.isfile
isfile(t, p) ==
    LET real == normpath(p)
    IN  \E n \in DOMAIN t : \E k \in DOMAIN t[n].entries :
            /\ t[n].entries[k].kind = "file"
            /\ join(DiskPath(t, n), t[n].entries[k].name) = real

\* os.path.exists
exists(t, p) == ResolveDir(t, p) # 0 \/ isfile(t, p)

ChildNode(t, n, name) ==
    CHOOSE m \in DOMAIN t : t[m].parent = n /\ t[m].name = name

\* [root for root, dirs, files in os.walk(top)]: top-down, a directory whose
\* scandir raises OSError is neither yielded nor descended into
RECURSIVE walk(_, _, _, _)
RECURSIVE walk_children(_, _, _, _, _)
walk(t, acc, n, top) ==
    IF acc[n] # "ok" THEN <<>>
    ELSE <<top>> \o walk_children(t, acc, n, top, 1)

walk_children(t, acc, n, top, k) ==
    IF k > Len(t[n].entries) THEN <<>>
    ELSE LET e == t[n].entries[k]
         IN  (IF e.kind = "dir"
              THEN walk(t, acc, ChildNode(t, n, e.name), join(top, e.name))
              ELSE <<>>)
             \o walk_children(t, acc, n, top, k + 1)

\* as os_walk, but only the directories below top are yielded
os_walk_below_top(t, acc, top) ==
    IF ResolveDir(t, top) = 0 THEN <<>>
    ELSE walk_children(t, acc, ResolveDir(t, top), top, 1)

os_walk(t, acc, top) ==
    IF ResolveDir(t, top) = 0 THEN <<>>
    ELSE walk(t, acc, ResolveDir(t, top), top)

\* os.listdir(path) against the filesystem as it is now
listdir(t, acc, path) ==
    LET n == ResolveDir(t, path)
    IN  IF n = 0 THEN [err |-> "OSError", names |-> <<>>]
        ELSE IF acc[n] # "ok" THEN [err |-> acc[n], names |-> <<>>]
        ELSE [err |-> "ok",
              names |-> [k \in DOMAIN t[n].entries |-> t[n].entries[k].name]]

(***************************************************************************)
(* FileScannerThread.                                                      *)
(***************************************************************************)
\* as exclusion_loop, but a blank term ends the loop instead of being skipped
RECURSIVE exclusion_loop_blank_ends(_, _, _)
exclusion_loop_blank_ends(terms, folder_name, folder_path_lower) ==
    IF terms = <<>> THEN FALSE
    ELSE LET exclusion_lower == Lower(Strip(Head(terms)))
         IN  IF exclusion_lower = <<>> THEN FALSE
             ELSE IF \/ Contains(folder_name, exclusion_lower)
                     \/ Contains(folder_path_lower, exclusion_lower)
             THEN TRUE
             ELSE exclusion_loop_blank_ends(Tail(terms), folder_name,
                                            folder_path_lower)

RECURSIVE exclusion_loop(_, _, _)
exclusion_loop(terms, folder_name, folder_path_lower) ==
    IF terms = <<>> THEN FALSE
    ELSE LET exclusion_lower == Lower(Strip(Head(terms)))
         IN  IF exclusion_lower = <<>>
             THEN exclusion_loop(Tail(terms), folder_name, folder_path_lower)
             ELSE IF \/ Contains(folder_name, exclusion_lower)
                     \/ Contains(folder_path_lower, exclusion_lower)
             THEN TRUE
             ELSE exclusion_loop(Tail(terms), folder_name, folder_path_lower)

\* as should_exclude_folder, but only the base name is searched
should_exclude_folder_name_only(terms, folder_path) ==
    IF terms = <<>> THEN FALSE
    ELSE exclusion_loop(terms, Lower(basename(folder_path)),
                        Lower(basename(folder_path)))

should_exclude_folder(terms, folder_path) ==
    IF terms = <<>> THEN FALSE
    ELSE exclusion_loop(terms, Lower(basename(folder_path)), Lower(folder_path))

\* as file_matches, but the file name is compared as it is spelled
file_matches_case_sensitive(file, target) ==
    LET name_without_ext == splitext_root(file)
        search_term == Lower(target)
    IN  IF file = search_term THEN TRUE
        ELSE IF name_without_ext = search_term THEN TRUE
        ELSE IF Contains(file, search_term) THEN TRUE
        ELSE IF Contains(name_without_ext, search_term) THEN TRUE
        ELSE FALSE

\* as file_matches, but the extension of the target is dropped as well
file_matches_target_stem(file, target) ==
    LET name_without_ext == splitext_root(file)
        search_term == Lower(splitext_root(target))
        file_lower == Lower(file)
        name_without_ext_lower == Lower(name_without_ext)
    IN  IF file_lower = search_term THEN TRUE
        ELSE IF name_without_ext_lower = search_term THEN TRUE
        ELSE IF Contains(file_lower, search_term) THEN TRUE
        ELSE IF Contains(name_without_ext_lower, search_term) THEN TRUE
        ELSE FALSE

\* as file_matches, without its third criterion
file_matches_no_rule_3(file, target) ==
    LET name_without_ext == splitext_root(file)
        search_term == Lower(target)
        file_lower == Lower(file)
        name_without_ext_lower == Lower(name_without_ext)
    IN  IF file_lower = search_term THEN TRUE
        ELSE IF name_without_ext_lower = search_term THEN TRUE
        ELSE IF Contains(name_without_ext_lower, search_term) THEN TRUE
        ELSE FALSE

\* the four matching criteria of run() applied to one file name
file_matches(file, target) ==
    LET name_without_ext == splitext_root(file)
        search_term == Lower(target)
        file_lower == Lower(file)
        name_without_ext_lower == Lower(name_without_ext)
    IN  IF file_lower = search_term THEN TRUE
        ELSE IF name_without_ext_lower = search_term THEN TRUE
        ELSE IF Contains(file_lower, search_term) THEN TRUE
        ELSE IF Contains(name_without_ext_lower, search_term) THEN TRUE
        ELSE FALSE

\* as file_found_in, but without the os.path.isfile test
RECURSIVE file_found_in_any_entry(_, _, _, _)
file_found_in_any_entry(t, folder_path, names, target) ==
    IF names = <<>> THEN FALSE
    ELSE IF file_matches(Head(names), target) THEN TRUE
    ELSE file_found_in_any_entry(t, folder_path, Tail(names), target)

\* the loop of run() over os.listdir(folder_path): file_found
RECURSIVE file_found_in(_, _, _, _)
file_found_in(t, folder_path, names, target) ==
    IF names = <<>> THEN FALSE
    ELSE IF /\ isfile(t, join(folder_path, Head(names)))
            /\ file_matches(Head(names), target)
    THEN TRUE
    ELSE file_found_in(t, folder_path, Tail(names), target)

Progress(current, total) ==
    [type |-> "progress_updated", current |-> current, total |-> total,
     path |-> <<>>, count |-> 0]
FolderFound(path) ==
    [type |-> "folder_found", current |-> 0, total |-> 0,
     path |-> path, count |-> 0]
ScanCompleted(count) ==
    [type |-> "scan_completed", current |-> 0, total |-> 0,
     path |-> <<>>, count |-> count]

\* as check_folder, but the directory is listed before exclusion is checked
check_folder_listing_first(t, acc, terms, target, folder_path) ==
    LET l == listdir(t, acc, folder_path)
    IN  IF l.err = "PermissionError" THEN "denied"
        ELSE IF l.err # "ok" THEN "raised"
        ELSE IF should_exclude_folder(terms, folder_path) THEN "excluded"
        ELSE IF file_found_in(t, folder_path, l.names, target) THEN "found"
        ELSE "missing"

\* what one iteration of the loop of run() does with all_dirs[k]
check_folder(t, acc, terms, target, folder_path) ==
    IF should_exclude_folder(terms, folder_path) THEN "excluded"
    ELSE LET l == listdir(t, acc, folder_path)
         IN  IF l.err = "PermissionError" THEN "denied"
             ELSE IF l.err # "ok" THEN "raised"
             ELSE IF file_found_in(t, folder_path, l.names, target) THEN "found"
             ELSE "missing"

\* as iteration_events, but progress carries the 0-based loop index
iteration_events_index(what, folder_path, k, total) ==
    CASE what = "missing" ->
            <<FolderFound(normpath(folder_path)), Progress(k - 1, total)>>
      [] what = "found" -> <<Progress(k - 1, total)>>
      [] OTHER -> <<>>

\* as iteration_events, but an unreadable folder falls through to the report
iteration_events_denied_reported(what, folder_path, k, total) ==
    CASE what \in {"missing", "denied"} ->
            <<FolderFound(normpath(folder_path)), Progress(k, total)>>
      [] what = "found" -> <<Progress(k, total)>>
      [] OTHER -> <<>>

\* as iteration_events, but the progress signal precedes the report
iteration_events_progress_first(what, folder_path, k, total) ==
    CASE what = "missing" ->
            <<Progress(k, total), FolderFound(normpath(folder_path))>>
      [] what = "found" -> <<Progress(k, total)>>
      [] OTHER -> <<>>

\* the signals one iteration emits, given what it did
iteration_events(what, folder_path, k, total) ==
    CASE what = "missing" ->
            <<FolderFound(normpath(folder_path)), Progress(k, total)>>
      [] what = "found" -> <<Progress(k, total)>>
      [] OTHER -> <<>>

GuiUnchanged ==
    UNCHANGED <<delivered, scans, results_folders, results_text, scan_enabled,
                progress_value, progress_visible, status, dialog, last_run>>

\* run(), lines 46-56: clear the results and enumerate the directories
run_enumerate ==
    /\ pc = "start"
    /\ missing_folders' = <<>>
    /\ all_dirs' = os_walk(Trees[fs_tree], fs_access, root_folder)
    /\ total_dirs' = Len(all_dirs')
    /\ i' = 0
    /\ pc' = "loop"
    /\ GuiUnchanged
    /\ UNCHANGED <<fs_tree, fs_access, fs_changes, root_folder, filename,
                   exclusion_list, outcome, events, arg, ret>>

\* run(), lines 58-107 and 111-112: one iteration of the loop
run_iteration ==
    /\ pc = "loop"
    /\ i < total_dirs
    /\ LET folder_path == all_dirs[i + 1]
           what == check_folder(Trees[fs_tree], fs_access, exclusion_list,
                                filename, folder_path)
       IN  /\ outcome' = Append(outcome, what)
           /\ missing_folders' =
                 IF what = "missing"
                 THEN Append(missing_folders, normpath(folder_path))
                 ELSE missing_folders
           /\ events' = events \o iteration_events(what, folder_path, i + 1, total_dirs)
           /\ pc' = IF what = "raised" THEN "failed" ELSE "loop"
           /\ i' = IF what = "raised" THEN i ELSE i + 1
    /\ GuiUnchanged
    /\ UNCHANGED <<fs_tree, fs_access, fs_changes, root_folder, filename,
                   exclusion_list, all_dirs, total_dirs, arg, ret>>

\* as run_complete, but the signal carries the number of directories
run_complete_total ==
    /\ pc = "loop"
    /\ i = total_dirs
    /\ events' = Append(events, ScanCompleted(total_dirs))
    /\ pc' = "done"
    /\ GuiUnchanged
    /\ UNCHANGED <<fs_tree, fs_access, fs_changes, root_folder, filename,
                   exclusion_list, missing_folders, all_dirs, total_dirs, i,
                   outcome, arg, ret>>

\* as run_complete, but a last progress signal precedes the completion
run_complete_final_progress ==
    /\ pc = "loop"
    /\ i = total_dirs
    /\ events' = events \o <<Progress(total_dirs, total_dirs),
                             ScanCompleted(Len(missing_folders))>>
    /\ pc' = "done"
    /\ GuiUnchanged
    /\ UNCHANGED <<fs_tree, fs_access, fs_changes, root_folder, filename,
                   exclusion_list, missing_folders, all_dirs, total_dirs, i,
                   outcome, arg, ret>>

\* run(), line 109
run_complete ==
    /\ pc = "loop"
    /\ i = total_dirs
    /\ events' = Append(events, ScanCompleted(Len(missing_folders)))
    /\ pc' = "done"
    /\ GuiUnchanged
    /\ UNCHANGED <<fs_tree, fs_access, fs_changes, root_folder, filename,
                   exclusion_list, missing_folders, all_dirs, total_dirs, i,
                   outcome, arg, ret>>

(***************************************************************************)
(* MissingFileScanner: the window.  What the user may have typed into the  *)
(* three input fields when the scan button is clicked:                     *)
(***************************************************************************)
FolderTexts ==
    { <<" ">>,                                      \* blank
      <<" ", "r", "/">>,                            \* r/ behind a blank
      <<"n", "o", "p", "e">>,                       \* does not exist
      join(s_r, s_Config_TXT) }                     \* a regular file in one tree

FilenameTexts ==
    { <<" ">>,
      <<" ">> \o s_x_txt,
      s_config_txt,
      <<"a">> }

ExclusionTexts ==
    { <<>>,
      <<"n", "o">>,
      <<" ", "N", "O", " ", ",", " ", ",", "C">>,   \* " NO , ,C"
      <<"r">> }

GreatMessage == <<"Great! The file was found in all scanned folders.">>

\* [term.strip() for term in exclusion_text.split(',') if term.strip()]
RECURSIVE strip_terms(_)
strip_terms(parts) ==
    IF parts = <<>> THEN <<>>
    ELSE IF Strip(Head(parts)) # <<>>
    THEN <<Strip(Head(parts))>> \o strip_terms(Tail(parts))
    ELSE strip_terms(Tail(parts))

parse_exclusion(exclusion_text) ==
    IF exclusion_text # <<>> THEN strip_terms(Split(exclusion_text, ","))
    ELSE <<>>

Status(kind, a, b) == [kind |-> kind, a |-> a, b |-> b]

WorkerUnchanged ==
    UNCHANGED <<pc, root_folder, filename, exclusion_list, missing_folders,
                all_dirs, total_dirs, i, outcome, events>>

\* as start_scan_warning, but the folder is not looked up on the disk
start_scan_warning_folder_unchecked(t, folder_path, target) ==
    IF folder_path = <<>> THEN "Please select a folder to scan."
    ELSE IF target = <<>> THEN "Please enter a filename to search for."
    ELSE "none"

\* the message box start_scan() shows for the inputs, lines 827-837
start_scan_warning(t, folder_path, target) ==
    IF folder_path = <<>> THEN "Please select a folder to scan."
    ELSE IF target = <<>> THEN "Please enter a filename to search for."
    ELSE IF ~exists(t, folder_path) THEN "Selected folder does not exist."
    ELSE "none"

\* as clear_results, but what the window shows is kept
clear_results_kept ==
    UNCHANGED <<results_folders, results_text>>

\* ClickableTextEdit.clear_results(), lines 213-220
clear_results ==
    /\ results_folders' = <<>>
    /\ results_text' = <<>>

\* as setup_scanning, but the scan button stays enabled
setup_scanning_button_enabled ==
    /\ scan_enabled' = scan_enabled
    /\ progress_visible' = TRUE
    /\ progress_value' = 0
    /\ status' = Status("Initializing scan...", 0, 0)

\* start_scan(), lines 848-852: the button is disabled, the progress bar reset
setup_scanning ==
    /\ scan_enabled' = FALSE
    /\ progress_visible' = TRUE
    /\ progress_value' = 0
    /\ status' = Status("Initializing scan...", 0, 0)

\* as new_scanner_thread, but the signals of the thread before stay queued
new_scanner_thread_old_signals(folder_path, target, terms) ==
    /\ root_folder' = folder_path
    /\ filename' = target
    /\ exclusion_list' = terms
    /\ missing_folders' = <<>>
    /\ all_dirs' = <<>>
    /\ total_dirs' = 0
    /\ i' = 0
    /\ outcome' = <<>>
    /\ UNCHANGED <<events, delivered>>
    /\ pc' = "start"

\* start_scan(), lines 855-859, and FileScannerThread.__init__, lines 18-23:
\* a new thread object, with nothing emitted yet, is connected and started
new_scanner_thread(folder_path, target, terms) ==
    /\ root_folder' = folder_path
    /\ filename' = target
    /\ exclusion_list' = terms
    /\ missing_folders' = <<>>
    /\ all_dirs' = <<>>
    /\ total_dirs' = 0
    /\ i' = 0
    /\ outcome' = <<>>
    /\ events' = <<>>
    /\ delivered' = 0
    /\ pc' = "start"

\* start_scan(), lines 821-859, run by a click on the enabled scan button
\* (no click gets through while a modal message box is open); last_run is
\* left to the specification
start_scan(folder_text, filename_text, exclusion_text) ==
    LET folder_path == Strip(folder_text)
        target == Strip(filename_text)
        text == Strip(exclusion_text)
        warning == start_scan_warning(Trees[fs_tree], folder_path, target)
    IN  /\ scan_enabled
        /\ dialog = "none"
        /\ scans < MaxScans
        /\ dialog' = warning
        /\ IF warning # "none"
           THEN UNCHANGED <<fs_tree, fs_access, fs_changes, pc, root_folder,
                            filename, exclusion_list, missing_folders, all_dirs,
                            total_dirs, i, outcome, events, delivered, scans,
                            results_folders, results_text, scan_enabled,
                            progress_value, progress_visible, status,
                            arg, ret>>
           ELSE /\ clear_results
                /\ setup_scanning
                /\ new_scanner_thread(folder_path, target, parse_exclusion(text))
                /\ scans' = scans + 1
                /\ UNCHANGED <<fs_tree, fs_access, fs_changes, arg, ret>>

\* the next queued signal waiting for its slot
Pending == delivered < Len(events)
NextEvent == events[delivered + 1]

\* update_progress(), lines 861-865
update_progress ==
    /\ Pending
    /\ NextEvent.type = "progress_updated"
    /\ delivered' = delivered + 1
    /\ IF NextEvent.total = 0
       THEN /\ status' = Status("ZeroDivisionError", 0, 0)
            /\ UNCHANGED progress_value
       ELSE /\ progress_value' = (NextEvent.current * 100) \div NextEvent.total
            /\ status' = Status("Scanning...", NextEvent.current, NextEvent.total)
    /\ WorkerUnchanged
    /\ UNCHANGED <<fs_tree, fs_access, fs_changes, scans, results_folders,
                   results_text, scan_enabled, progress_visible, dialog,
                   last_run, arg, ret>>

\* as add_missing_folder, but the newest path goes on top of the list
add_missing_folder_on_top ==
    /\ Pending
    /\ NextEvent.type = "folder_found"
    /\ delivered' = delivered + 1
    /\ results_folders' = <<NextEvent.path>> \o results_folders
    /\ results_text' = <<NextEvent.path>> \o results_text
    /\ WorkerUnchanged
    /\ UNCHANGED <<fs_tree, fs_access, fs_changes, scans, scan_enabled,
                   progress_value, progress_visible, status, dialog,
                   last_run, arg, ret>>

\* add_missing_folder(), lines 867-869, and add_folder_path(), lines 208-211
add_missing_folder ==
    /\ Pending
    /\ NextEvent.type = "folder_found"
    /\ delivered' = delivered + 1
    /\ results_folders' = Append(results_folders, NextEvent.path)
    /\ results_text' = Append(results_text, NextEvent.path)
    /\ WorkerUnchanged
    /\ UNCHANGED <<fs_tree, fs_access, fs_changes, scans, scan_enabled,
                   progress_value, progress_visible, status, dialog,
                   last_run, arg, ret>>

\* scan_finished(), lines 871-894
scan_finished ==
    /\ Pending
    /\ NextEvent.type = "scan_completed"
    /\ delivered' = delivered + 1
    /\ scan_enabled' = TRUE
    /\ IF NextEvent.count = 0
       THEN /\ status' = Status("File found in all folders!", 0, 0)
            /\ results_text' = <<GreatMessage>>
       ELSE /\ status' = Status("File missing in", NextEvent.count, 0)
            /\ UNCHANGED results_text
    /\ WorkerUnchanged
    /\ dialog' = "Scan Complete"
    /\ UNCHANGED <<fs_tree, fs_access, fs_changes, scans, results_folders,
                   progress_value, progress_visible, last_run, arg, ret>>

\* the user closes the message box: QMessageBox.warning, .critical or
\* .information returns, lines 828, 832, 836 and 890
close_dialog ==
    /\ dialog # "none"
    /\ dialog' = "none"
    /\ WorkerUnchanged
    /\ UNCHANGED <<fs_tree, fs_access, fs_changes, delivered, scans,
                   results_folders, results_text, scan_enabled, progress_value,
                   progress_visible, status, last_run, arg, ret>>

(***************************************************************************)
(* The environment: another process changes what listing a directory does  *)
(* (chmod, removal, an I/O fault) while a worker is reading the            *)
(* filesystem: before the enumeration, or before the loop lists the        *)
(* directory.  Nothing in the program observes a change at another moment. *)
(***************************************************************************)
StillToList ==
    IF pc = "start" THEN DOMAIN Trees[fs_tree]
    ELSE IF pc = "loop"
    THEN {ResolveDir(Trees[fs_tree], all_dirs[k]) : k \in (i + 1)..Len(all_dirs)}
    ELSE {}

fs_change(n, a) ==
    /\ fs_changes < MaxFsChanges
    /\ fs_access[n] # a
    /\ fs_access' = [fs_access EXCEPT ![n] = a]
    /\ fs_changes' = fs_changes + 1
    /\ WorkerUnchanged
    /\ GuiUnchanged
    /\ UNCHANGED <<fs_tree, arg, ret>>

\* no run came before
NoRun ==
    [ran |-> FALSE, root_folder |-> <<>>, filename |-> <<>>,
     exclusion_list |-> <<>>, paths |-> <<>>, counts |-> <<>>]

\* no call of a function on drawn inputs is in progress
NoArg ==
    [fn |-> "none", terms |-> <<>>, path |-> <<>>, entries |-> <<>>,
     target |-> <<>>]
NoRet == [done |-> FALSE, value |-> FALSE]

Init ==
    /\ fs_tree \in DOMAIN Trees
    /\ fs_access = [n \in DOMAIN Trees[fs_tree] |-> "ok"]
    /\ fs_changes = 0
    /\ pc = "idle"
    /\ root_folder = <<>>
    /\ filename = <<>>
    /\ exclusion_list = <<>>
    /\ missing_folders = <<>>
    /\ all_dirs = <<>>
    /\ total_dirs = 0
    /\ i = 0
    /\ outcome = <<>>
    /\ events = <<>>
    /\ delivered = 0
    /\ scans = 0
    /\ results_folders = <<>>
    /\ results_text = <<>>
    /\ scan_enabled = TRUE
    /\ progress_value = 0
    /\ progress_visible = FALSE
    /\ status = Status("Ready to scan", 0, 0)
    /\ dialog = "none"
    /\ last_run = NoRun
    /\ arg = NoArg
    /\ ret = NoRet

Next ==
    \/ \E folder_text \in FolderTexts, filename_text \in FilenameTexts,
          exclusion_text \in ExclusionTexts :
            /\ start_scan(folder_text, filename_text, exclusion_text)
            /\ UNCHANGED last_run
    \/ run_enumerate
    \/ run_iteration
    \/ run_complete
    \/ update_progress
    \/ add_missing_folder
    \/ scan_finished
    \/ close_dialog
    \/ \E n \in StillToList, a \in Access : fs_change(n, a)

Spec == Init /\ [][Next]_vars

(***************************************************************************)
(* Scan after scan on a filesystem nobody else touches.  last_run keeps    *)
(* what the run before the current one was asked and what it emitted; it   *)
(* is written when the next scan starts, just before start_scan() replaces *)
(* the thread object.                                                      *)
(***************************************************************************)
\* the paths carried by the folder_found signals among evs, in order
FolderFoundPaths(evs) ==
    LET found == SelectSeq(evs, LAMBDA e : e.type = "folder_found")
    IN  [k \in DOMAIN found |-> found[k].path]

\* the counts carried by the scan_completed signals among evs, in order
CompletionCounts(evs) ==
    LET completed == SelectSeq(evs, LAMBDA e : e.type = "scan_completed")
    IN  [k \in DOMAIN completed |-> completed[k].count]

\* the request of the current thread and the signals it emitted
RunRecord ==
    [ran |-> TRUE, root_folder |-> root_folder, filename |-> filename,
     exclusion_list |-> exclusion_list, paths |-> FolderFoundPaths(events),
     counts |-> CompletionCounts(events)]

start_scan_again(folder_text, filename_text, exclusion_text) ==
    /\ start_scan(folder_text, filename_text, exclusion_text)
    /\ last_run' = IF scans' # scans /\ scans >= 1 THEN RunRecord ELSE last_run

NextRepeat ==
    \/ \E folder_text \in FolderTexts, filename_text \in FilenameTexts,
          exclusion_text \in ExclusionTexts :
            start_scan_again(folder_text, filename_text, exclusion_text)
    \/ run_enumerate
    \/ run_iteration
    \/ run_complete
    \/ update_progress
    \/ add_missing_folder
    \/ scan_finished
    \/ close_dialog

SpecRepeat == Init /\ [][NextRepeat]_vars

(***************************************************************************)
(* test_demo.py: scan_for_missing_file called on the folder and the target *)
(* of the scan the window just ran, on the same filesystem.                *)
(***************************************************************************)
\* the files os.walk yields with a directory: its entries that are no
\* directories, in listing order
walk_files(t, root) ==
    LET n == ResolveDir(t, root)
        files == SelectSeq(t[n].entries, LAMBDA e : e.kind = "file")
    IN  [k \in DOMAIN files |-> files[k].name]

\* scan_for_missing_file(), lines 61-72: is the target in this directory
demo_file_found(files, target_filename) ==
    IF \E k \in DOMAIN target_filename : target_filename[k] = "."
    THEN \E k \in DOMAIN files : files[k] = target_filename
    ELSE \E k \in DOMAIN files :
            Lower(splitext_root(files[k])) = Lower(target_filename)

\* scan_for_missing_file(), lines 51-77
scan_for_missing_file(t, acc, root_folder_arg, target_filename) ==
    LET roots == os_walk(t, acc, root_folder_arg)
    IN  SelectSeq(roots,
                  LAMBDA root : ~demo_file_found(walk_files(t, root), target_filename))

call_scan_for_missing_file ==
    /\ pc = "done"
    /\ \/ arg.fn # "scan_for_missing_file"
       \/ arg.path # root_folder
       \/ arg.target # filename
    /\ arg' = [NoArg EXCEPT !.fn = "scan_for_missing_file",
                            !.path = root_folder, !.target = filename]
    /\ ret' = [done |-> TRUE,
               value |-> scan_for_missing_file(Trees[fs_tree], fs_access,
                                               root_folder, filename)]
    /\ WorkerUnchanged
    /\ GuiUnchanged
    /\ UNCHANGED <<fs_tree, fs_access, fs_changes>>

NextDemo ==
    \/ \E folder_text \in FolderTexts, filename_text \in FilenameTexts,
          exclusion_text \in ExclusionTexts :
            /\ start_scan(folder_text, filename_text, exclusion_text)
            /\ UNCHANGED last_run
    \/ run_enumerate
    \/ run_iteration
    \/ run_complete
    \/ update_progress
    \/ add_missing_folder
    \/ scan_finished
    \/ close_dialog
    \/ call_scan_for_missing_file

SpecDemo == Init /\ [][NextDemo]_vars



(***************************************************************************)
(* Vocabulary of the properties.                                           *)
(***************************************************************************)
Range(f) == {f[k] : k \in DOMAIN f}

EventsOfType(type) == {k \in DOMAIN events : events[k].type = type}

\* the run is over: run() has returned, one way or the other
RunOver == pc \in {"done", "failed"}

\* the run emitted its completion signal
RunCompleted == pc = "done"

\* some term, non-empty after trimming, is case-insensitively a substring of
\* the folder's base name or of its full path
ExclusionMatches(terms, folder_path) ==
    \E k \in DOMAIN terms :
        /\ Strip(terms[k]) # <<>>
        /\ \/ Contains(Lower(basename(folder_path)), Lower(Strip(terms[k])))
           \/ Contains(Lower(folder_path), Lower(Strip(terms[k])))

\* the name before its last dot, the whole name when it has no dot
ExtensionStripped(name) ==
    IF RFind(name, ".") = 0 THEN name
    ELSE SubSeq(name, 1, RFind(name, ".") - 1)

\* one of the four rules holds between a file name and the target
SatisfiesSomeRule(name, target) ==
    \/ Lower(name) = Lower(target)
    \/ Lower(ExtensionStripped(name)) = Lower(target)
    \/ Contains(Lower(name), Lower(target))
    \/ Contains(Lower(ExtensionStripped(name)), Lower(target))

\* some immediate regular file of the directory matches the target
HoldsTarget(t, n, target) ==
    \E k \in DOMAIN t[n].entries :
        /\ t[n].entries[k].kind = "file"
        /\ SatisfiesSomeRule(t[n].entries[k].name, target)

\* the k-th enumerated directory is one the run must report
MustReport(k) ==
    /\ ~ExclusionMatches(exclusion_list, all_dirs[k])
    /\ outcome[k] # "denied"
    /\ ~HoldsTarget(Trees[fs_tree], ResolveDir(Trees[fs_tree], all_dirs[k]), filename)

RECURSIVE ReportedFrom(_)
ReportedFrom(k) ==
    IF k > Len(all_dirs) THEN <<>>
    ELSE (IF MustReport(k) THEN <<normpath(all_dirs[k])>> ELSE <<>>)
         \o ReportedFrom(k + 1)

\* C1: when run() reaches its completion signal, the missing list is exactly
\* the enumerated directories that are not excluded, whose listing succeeded
\* and none of whose immediate regular files matches the target, in
\* enumeration order
C1_MissingListExact ==
    RunCompleted => missing_folders = ReportedFrom(1)

\* a completed run over r/{Node/{sub, a.t}, data/{x.txt/}} for x.txt with Node
\* excluded: data holds only a sub-directory called x.txt and is reported
C1_Witness ==
    /\ RunCompleted
    /\ fs_tree = 3
    /\ filename = s_x_txt
    /\ "excluded" \in Range(outcome)
    /\ join(s_r, s_data) \in Range(missing_folders)

\* C2: every run that is over emitted exactly one completion signal, as its
\* last signal
C2_ExactlyOneCompletion ==
    RunOver =>
        /\ Cardinality(EventsOfType("scan_completed")) = 1
        /\ events[Len(events)].type = "scan_completed"

\* C3: the count carried by the completion signal is the number of
\* folder_found signals emitted before it, and the length of the missing list
C3_CompletionCount ==
    \A k \in EventsOfType("scan_completed") :
        /\ events[k].count =
              Cardinality({m \in EventsOfType("folder_found") : m < k})
        /\ events[k].count = Len(missing_folders)

\* a completed run that reported two folders or more
C3_Witness ==
    /\ RunCompleted
    /\ Cardinality(EventsOfType("folder_found")) >= 2
    /\ "found" \in Range(outcome)

\* C4: a completed run has emitted one progress signal (k, total) for every
\* enumerated directory k, excluded and unreadable ones included
C4_ProgressForEveryDirectory ==
    RunCompleted =>
        \A k \in 1..total_dirs :
            \E m \in EventsOfType("progress_updated") :
                events[m].current = k /\ events[m].total = total_dirs

\* C5: every progress signal has 1 <= current <= total, current never
\* decreases, and total is the number of enumerated directories
C5_ProgressBounds ==
    /\ \A k \in EventsOfType("progress_updated") :
          /\ 1 <= events[k].current
          /\ events[k].current <= events[k].total
          /\ events[k].total = Len(all_dirs)
    /\ \A k, m \in EventsOfType("progress_updated") :
          k < m => events[k].current <= events[m].current

\* a completed run with several progress signals although one directory was
\* excluded and another could not be read
C5_Witness ==
    /\ RunCompleted
    /\ Cardinality(EventsOfType("progress_updated")) >= 2
    /\ "excluded" \in Range(outcome)
    /\ "denied" \in Range(outcome)

\* C6: in a completed run over at least one directory the last progress
\* signal has current = total
C6_LastProgressIsTotal ==
    (RunCompleted /\ total_dirs >= 1) =>
        /\ EventsOfType("progress_updated") # {}
        /\ \E k \in EventsOfType("progress_updated") :
              /\ \A m \in EventsOfType("progress_updated") : m <= k
              /\ events[k].current = events[k].total

\* directory node n is node a or lies beneath it in the tree
RECURSIVE IsBeneath(_, _, _)
IsBeneath(t, n, a) ==
    IF n = a THEN TRUE
    ELSE IF t[n].parent = 0 THEN FALSE
    ELSE IsBeneath(t, t[n].parent, a)

\* C9: when an enumerated folder matches exclusion, neither it nor any
\* folder beneath it in the tree is listed by the check or reported missing
C9_ExclusionCoversSubtree ==
    LET t == Trees[fs_tree]
        node == [k \in DOMAIN outcome |-> ResolveDir(t, all_dirs[k])]
    IN  \A a \in DOMAIN outcome :
            ExclusionMatches(exclusion_list, all_dirs[a]) =>
                \A k \in DOMAIN outcome :
                    IsBeneath(t, node[k], node[a]) =>
                        /\ outcome[k] = "excluded"
                        /\ normpath(all_dirs[k]) \notin Range(missing_folders)
                        /\ \A m \in EventsOfType("folder_found") :
                              events[m].path # normpath(all_dirs[k])

\* r/Node matches the term no; r/Node/sub, whose own name does not, was
\* reached by the loop in a run that reported other folders
C9_Witness ==
    /\ RunCompleted
    /\ fs_tree = 3
    /\ exclusion_list = << <<"n", "o">> >>
    /\ Len(outcome) = 5
    /\ outcome[3] = "excluded"
    /\ ~Contains(Lower(basename(all_dirs[3])), <<"n", "o">>)
    /\ missing_folders # <<>>

\* C10: a directory whose listing raises PermissionError is not appended to
\* the missing list and gets no folder_found signal; the loop goes on with
\* the next directory, so a run that is over has processed the directory
\* after it, and it ended with the completion signal unless the listing of
\* another directory raised an error that is not a PermissionError
C10_PermissionErrorSkipped ==
    \A k \in DOMAIN outcome :
        outcome[k] = "denied" =>
            /\ normpath(all_dirs[k]) \notin Range(missing_folders)
            /\ \A m \in EventsOfType("folder_found") :
                  events[m].path # normpath(all_dirs[k])
            /\ pc \in {"loop", "done", "failed"}
            /\ (pc = "loop" /\ Len(outcome) = k) => i = k
            /\ (RunOver /\ k < total_dirs) => Len(outcome) > k
            /\ pc = "failed" => outcome[Len(outcome)] = "raised"
            /\ pc = "done" =>
                  /\ Len(outcome) = total_dirs
                  /\ events # <<>>
                  /\ events[Len(events)].type = "scan_completed"

\* a completed run in which a directory in the middle could not be read and
\* a later directory was reported
C10_Witness ==
    /\ RunCompleted
    /\ \E k \in DOMAIN outcome :
          /\ outcome[k] = "denied"
          /\ \E m \in DOMAIN outcome : m > k /\ outcome[m] = "missing"

\* C11: a listing failure of any kind on one directory is recovered locally:
\* the run is not aborted, it goes on to process every enumerated directory
\* and ends with a completion signal
C11_ListingFailureRecovered ==
    (\E k \in DOMAIN outcome : outcome[k] \in {"denied", "raised"}) =>
        /\ pc # "failed"
        /\ RunOver => /\ Len(outcome) = total_dirs
                      /\ events # <<>>
                      /\ events[Len(events)].type = "scan_completed"

\* C12: once a run is over and every signal it emitted has been handled, the
\* window is out of its scanning state: the scan button is enabled again
C12_ConsumerLeavesScanning ==
    (RunOver /\ delivered = Len(events)) => scan_enabled

\* the message boxes with which start_scan() rejects its inputs
Warnings ==
    {"Please select a folder to scan.",
     "Please enter a filename to search for.",
     "Selected folder does not exist."}

\* C13: a start_scan that rejects its inputs (blank folder, blank filename,
\* folder that does not exist) starts no worker, emits nothing and leaves the
\* results, the progress bar and the scan button as they were; and a scan
\* begins only with a non-blank folder that exists and a non-blank filename
C13_RejectedStartChangesNothing ==
    [][ /\ (dialog = "none" /\ dialog' \in Warnings) =>
              UNCHANGED <<pc, root_folder, filename, exclusion_list,
                          missing_folders, all_dirs, total_dirs, i, outcome,
                          events, delivered, scans, results_folders,
                          results_text, scan_enabled, progress_value,
                          progress_visible, status>>
        /\ scans' # scans =>
              /\ root_folder' # <<>>
              /\ filename' # <<>>
              /\ exists(Trees[fs_tree], root_folder')
      ]_vars

\* a start was rejected while the window showed the results of a scan
C13_Witness ==
    /\ dialog \in Warnings
    /\ scans >= 1
    /\ results_folders # <<>>
    /\ progress_visible
    /\ scan_enabled

\* C14: a worker is started only when none is running, and from the start of
\* a scan until its completion signal has been handled the scan button is
\* disabled
C14_AtMostOneWorker ==
    [][ /\ scans' # scans => pc \notin {"start", "loop"}
        /\ scan_enabled' =>
              \/ pc' = "idle"
              \/ pc' = "done" /\ delivered' = Len(events')
      ]_vars

\* a second worker is running, after the first one finished
C14_Witness ==
    /\ scans = 2
    /\ pc = "loop"
    /\ ~scan_enabled

\* C15: when a scan begins, the path list of the window, its text and the
\* accumulator of the worker are empty; at any time the window holds exactly
\* the paths of the folder_found signals of the current scan handled so far
\* and the worker exactly the paths it emitted, so nothing an earlier scan
\* reported is among them unless the current scan reported it
C15_ScanStartsEmpty ==
    /\ pc = "start" =>
          /\ results_folders = <<>>
          /\ results_text = <<>>
          /\ missing_folders = <<>>
    /\ results_folders = FolderFoundPaths(SubSeq(events, 1, delivered))
    /\ missing_folders = FolderFoundPaths(events)

\* a scan that followed one with reported folders is over and handled, and
\* a folder the earlier scan reported is not in the window
C15_Witness ==
    /\ last_run.ran
    /\ RunCompleted
    /\ delivered = Len(events)
    /\ \E p \in Range(last_run.paths) : p \notin Range(results_folders)

\* the current scan was asked what the scan before it was asked
SameRequest ==
    /\ last_run.ran
    /\ last_run.root_folder = root_folder
    /\ last_run.filename = filename
    /\ last_run.exclusion_list = exclusion_list

ScenarioABC ==
    /\ fs_tree = 1
    /\ RunCompleted
    /\ filename = s_x_txt
    /\ exclusion_list = <<>>
    /\ fs_changes = 0

\* the base names of the reported folders, in order
MissingNames == [k \in DOMAIN missing_folders |-> basename(missing_folders[k])]

\* C17, as stated: the scan of A (x.txt), B (x.log), C (empty) for x.txt
\* reports the missing list [B, C] exactly, with A found
C17_MissingIsBC ==
    ScenarioABC =>
        /\ MissingNames = <<s_B, s_C>>
        /\ outcome[2] = "found"

\* C17, amended: the root, which holds no file x.txt itself, is reported
\* first; the missing list is [root, B, C] as normalized paths, in
\* enumeration order, with A found
C17_MissingIsRootBC ==
    ScenarioABC =>
        /\ missing_folders = <<s_r, join(s_r, s_B), join(s_r, s_C)>>
        /\ all_dirs[2] = join(root_folder, s_A)
        /\ outcome = <<"missing", "found", "missing", "missing">>

\* the scenario ran and all its signals were handled
C17_Witness ==
    /\ ScenarioABC
    /\ delivered = Len(events)
    /\ Len(results_folders) = 3

\* C18: the scan of a root with no entry at all, whose path no exclusion
\* term matches, reports the root and nothing else: one folder_found signal
\* for the root, one progress signal (1, 1) and the completion count 1
C18_EmptyRootReported ==
    ( /\ fs_tree = 2
      /\ RunCompleted
      /\ fs_changes = 0
      /\ ~ExclusionMatches(exclusion_list, root_folder) ) =>
        /\ all_dirs = <<root_folder>>
        /\ missing_folders = <<normpath(root_folder)>>
        /\ events = <<FolderFound(normpath(root_folder)), Progress(1, 1),
                      ScanCompleted(1)>>

\* the empty root was scanned and the window shows it as the one result
C18_Witness ==
    /\ fs_tree = 2
    /\ RunCompleted
    /\ fs_changes = 0
    /\ delivered = Len(events)
    /\ results_folders = <<s_r>>
    /\ progress_value = 100

\* C19: no progress signal carries total = 0, so update_progress never
\* divides by zero; and a run whose enumeration yielded no directory ends
\* with the completion signal carrying 0 as its only signal
C19_NoDivisionByZero ==
    /\ \A k \in EventsOfType("progress_updated") : events[k].total > 0
    /\ status.kind # "ZeroDivisionError"
    /\ (RunOver /\ total_dirs = 0) =>
          /\ RunCompleted
          /\ events = <<ScanCompleted(0)>>

\* a scan whose enumeration yielded no directory is over and handled
C19_Witness ==
    /\ RunCompleted
    /\ total_dirs = 0
    /\ delivered = Len(events)
    /\ scan_enabled
    /\ status.kind = "File found in all folders!"

\* the demo was called on the folder and the target of the completed scan
DemoCalled ==
    /\ RunCompleted
    /\ ret.done
    /\ arg.fn = "scan_for_missing_file"
    /\ arg.path = root_folder
    /\ arg.target = filename

\* C20: for the same folder and target, on the same filesystem, the demo's
\* scan_for_missing_file returns the folders the worker reports with an
\* empty exclusion list, in the same order (paths compared normalized)
C20_DemoSameAsWorker ==
    (DemoCalled /\ exclusion_list = <<>>) =>
        [k \in DOMAIN ret.value |-> normpath(ret.value[k])] = missing_folders

\* the position in events of the folder_found signal of the k-th directory,
\* 0 when there is none
AnnouncedAt(k) ==
    LET at == {m \in DOMAIN events :
                  events[m] = FolderFound(normpath(all_dirs[k]))}
    IN  IF at = {} THEN 0 ELSE CHOOSE m \in at : TRUE

\* C21: as soon as the loop is past a directory it found missing, the
\* folder_found signal of that directory is emitted: it comes right before
\* the progress signal (k, total) of the same directory and after the
\* progress signal of every earlier directory, so every progress signal
\* (k, total) has the reports of the first k directories before it
C21_FolderFoundNotBatched ==
    \A k \in DOMAIN outcome :
        outcome[k] = "missing" =>
            LET m == AnnouncedAt(k)
            IN  /\ m # 0
                /\ m + 1 \in DOMAIN events
                /\ events[m + 1] = Progress(k, total_dirs)
                /\ \A j \in EventsOfType("progress_updated") :
                      /\ events[j].current < k => j < m
                      /\ events[j].current >= k => j > m

\* the loop is in the middle of the directories, has reported two of them
\* and found the file in another
C21_Witness ==
    /\ pc = "loop"
    /\ i < total_dirs
    /\ Cardinality({k \in DOMAIN outcome : outcome[k] = "missing"}) >= 2
    /\ "found" \in Range(outcome)
    /\ delivered < Len(events)

\* s is the beginning of t
IsPrefix(s, t) == Len(s) <= Len(t) /\ s = SubSeq(t, 1, Len(s))

\* C22: the path list of the window is at every moment the beginning of the
\* missing list of the worker, and equal to it once the window has handled
\* the completion signal; within a scan only the worker's steps change the
\* worker's list and only the window's slots change the window's list
C22_WindowListIsPrefix ==
    [][ /\ IsPrefix(results_folders', missing_folders')
        /\ (delivered' = delivered + 1
              /\ events[delivered'].type = "scan_completed") =>
              results_folders' = missing_folders'
        /\ (scans' = scans /\ missing_folders' # missing_folders) =>
              /\ pc \in {"start", "loop"}
              /\ UNCHANGED <<results_folders, delivered>>
        /\ (scans' = scans /\ results_folders' # results_folders) =>
              /\ delivered' = delivered + 1
              /\ UNCHANGED <<missing_folders, pc, i>>
      ]_vars

\* the worker is ahead of the window: the window holds some of the reported
\* paths, the worker more
C22_Witness ==
    /\ pc = "loop"
    /\ results_folders # <<>>
    /\ Len(results_folders) < Len(missing_folders)

\* the path of the root folder, as the scan was given it, contains an
\* exclusion term case-insensitively
RootPathExcluded ==
    \E k \in DOMAIN exclusion_list :
        /\ Strip(exclusion_list[k]) # <<>>
        /\ Contains(Lower(root_folder), Lower(Strip(exclusion_list[k])))

\* what the window shows once it handled a completion signal carrying 0
AllFoundShown ==
    /\ status = Status("File found in all folders!", 0, 0)
    /\ results_text = <<GreatMessage>>
    /\ results_folders = <<>>
    /\ scan_enabled

\* C24: when the root's path contains an exclusion term, every enumerated
\* folder is excluded: no folder_found and no progress signal is emitted,
\* the run cannot fail and ends with the completion signal carrying 0 as its
\* only signal, and the window then shows what it shows after a scan that
\* found the file in every folder
C24_RootExcludedMeansAllFound ==
    /\ (pc # "idle" /\ RootPathExcluded) =>
          /\ \A k \in DOMAIN outcome : outcome[k] = "excluded"
          /\ EventsOfType("folder_found") = {}
          /\ EventsOfType("progress_updated") = {}
          /\ pc # "failed"
          /\ RunOver => events = <<ScanCompleted(0)>>
          /\ (RunOver /\ delivered = Len(events)) => AllFoundShown
    /\ ( /\ RunCompleted
         /\ delivered = Len(events)
         /\ \A k \in DOMAIN outcome : outcome[k] = "found" ) => AllFoundShown

\* the scan of r/{A, B, C} with the term r is over and handled: four
\* folders enumerated, all excluded
C24_Witness ==
    /\ fs_tree = 1
    /\ RootPathExcluded
    /\ RunCompleted
    /\ delivered = Len(events)
    /\ Len(outcome) = 4
    /\ AllFoundShown

(***************************************************************************)
(* The two deciding functions of the worker applied to drawn inputs:       *)
(* should_exclude_folder on any exclusion list a FileScannerThread can be  *)
(* constructed with (blank terms included), and the file loop of run() on  *)
(* any listing of one directory.                                           *)
(***************************************************************************)
SeqsUpTo(S, n) == UNION {[1..m -> S] : m \in 0..n}

TermPool ==
    { <<>>,
      <<" ">>,
      <<"n", "o">>,
      <<" ", "N", "o", " ">>,
      <<"x">>,
      <<"r", "/", "n">>,
      <<"B">> }

PathPool ==
    { s_r,
      join(s_r, s_Node),
      join(join(s_r, s_Node), s_sub),
      join(<<"R">>, s_x_txt),
      join(s_r, s_bak) \o <<Sep>> }

EntryPool ==
    { F(s_Config_TXT), F(s_myconfig_txt_bak), F(s_x_txt), D(s_x_txt),
      F(<<".", "x">>), F(<<"X">>), F(s_ASigma_t) }

TargetPool ==
    { s_config_txt, s_x_txt, <<"x">>, <<".", "X">>,
      <<"t", "x", "t", ".", "b">>, <<"l", "o", "g">>, s_ASigma }

\* listings in which no name occurs twice
Listings ==
    {es \in SeqsUpTo(EntryPool, MaxEntries) :
        \A k, m \in DOMAIN es : k # m => es[k].name # es[m].name}

ExcludeCalls ==
    {[fn |-> "should_exclude_folder", terms |-> ts, path |-> p,
      entries |-> <<>>, target |-> <<>>] :
        ts \in SeqsUpTo(TermPool, MaxTerms), p \in PathPool}

MatchCalls ==
    {[fn |-> "file_found", terms |-> <<>>, path |-> <<>>,
      entries |-> es, target |-> tg] :
        es \in Listings, tg \in TargetPool}

ScanUnchanged ==
    UNCHANGED <<fs_tree, fs_access, fs_changes, pc, root_folder, filename,
                exclusion_list, missing_folders, all_dirs, total_dirs, i,
                outcome, events, delivered, scans, results_folders,
                results_text, scan_enabled, progress_value, progress_visible,
                status, dialog, last_run>>

\* should_exclude_folder(), lines 25-42, on the drawn list and path
call_should_exclude_folder ==
    /\ arg.fn = "should_exclude_folder"
    /\ ~ret.done
    /\ ret' = [done |-> TRUE,
               value |-> should_exclude_folder(arg.terms, arg.path)]
    /\ UNCHANGED arg
    /\ ScanUnchanged

\* the file loop of run(), lines 64-95, on a directory r with the drawn entries
call_file_found ==
    /\ arg.fn = "file_found"
    /\ ~ret.done
    /\ LET t == <<Node(0, s_r, arg.entries)>>
           l == listdir(t, <<"ok">>, s_r)
       IN  ret' = [done |-> TRUE,
                   value |-> file_found_in(t, s_r, l.names, arg.target)]
    /\ UNCHANGED arg
    /\ ScanUnchanged

InitMatcher ==
    /\ fs_tree = 1
    /\ fs_access = [n \in DOMAIN Trees[fs_tree] |-> "ok"]
    /\ fs_changes = 0
    /\ pc = "idle"
    /\ root_folder = <<>>
    /\ filename = <<>>
    /\ exclusion_list = <<>>
    /\ missing_folders = <<>>
    /\ all_dirs = <<>>
    /\ total_dirs = 0
    /\ i = 0
    /\ outcome = <<>>
    /\ events = <<>>
    /\ delivered = 0
    /\ scans = 0
    /\ results_folders = <<>>
    /\ results_text = <<>>
    /\ scan_enabled = TRUE
    /\ progress_value = 0
    /\ progress_visible = FALSE
    /\ status = Status("Ready to scan", 0, 0)
    /\ dialog = "none"
    /\ last_run = NoRun
    /\ arg \in ExcludeCalls \cup MatchCalls
    /\ ret = NoRet

NextMatcher ==
    \/ call_should_exclude_folder
    \/ call_file_found

SpecMatcher == InitMatcher /\ [][NextMatcher]_vars

\* C7: should_exclude_folder returns true exactly when some term that is
\* non-empty after trimming is, case-insensitively, a substring of the base
\* name or of the full path; an empty list or a list of blank terms gives false
C7_ExcludeIffTermMatches ==
    (ret.done /\ arg.fn = "should_exclude_folder") =>
        /\ ret.value = ExclusionMatches(arg.terms, arg.path)
        /\ (\A k \in DOMAIN arg.terms : Strip(arg.terms[k]) = <<>>) => ~ret.value

\* a blank term followed by a padded, differently cased term that occurs in
\* the full path r/Node/sub but not in the base name sub
C7_Witness ==
    /\ ret.done
    /\ ret.value
    /\ arg.fn = "should_exclude_folder"
    /\ arg.terms = << <<" ">>, <<" ", "N", "o", " ">> >>
    /\ arg.path = join(join(s_r, s_Node), s_sub)

\* C8: the folder is found exactly when one of its regular files satisfies
\* one of the four rules, case-insensitively; Config.TXT and
\* myconfig.txt.bak both satisfy the target config.txt
C8_FoundIffSomeRule ==
    (ret.done /\ arg.fn = "file_found") =>
        /\ ret.value =
              \E k \in DOMAIN arg.entries :
                  /\ arg.entries[k].kind = "file"
                  /\ SatisfiesSomeRule(arg.entries[k].name, arg.target)
        /\ (/\ arg.target = s_config_txt
            /\ \/ F(s_Config_TXT) \in Range(arg.entries)
               \/ F(s_myconfig_txt_bak) \in Range(arg.entries))
           => ret.value

\* a directory x.txt, which does not count, then the file Config.TXT, found
\* for the target config.txt
C8_Witness ==
    /\ ret.done
    /\ ret.value
    /\ arg.fn = "file_found"
    /\ arg.entries = <<D(s_x_txt), F(s_Config_TXT)>>
    /\ arg.target = s_config_txt

\* rule 3 alone: the lower-cased target is a substring of the lower-cased
\* full name of some regular file of the listing
Rule3Holds(entries, target) ==
    \E k \in DOMAIN entries :
        /\ entries[k].kind = "file"
        /\ Contains(Lower(entries[k].name), Lower(target))

\* some regular file of the listing has a capital sigma in its name
SigmaInNames(entries) ==
    \E k \in DOMAIN entries :
        /\ entries[k].kind = "file"
        /\ "Σ" \in Range(entries[k].name)

\* C23, as stated: for every listing and every target the folder is found
\* exactly when rule 3 holds for one of its regular files
C23_FoundIffRule3 ==
    (ret.done /\ arg.fn = "file_found") =>
        ret.value = Rule3Holds(arg.entries, arg.target)

\* C23, amended: rule 3 always makes the folder found, and when no regular
\* file has a capital sigma in its name the folder is found exactly when
\* rule 3 holds
C23_FoundIffRule3WithoutSigma ==
    (ret.done /\ arg.fn = "file_found") =>
        /\ Rule3Holds(arg.entries, arg.target) => ret.value
        /\ ~SigmaInNames(arg.entries) =>
              ret.value = Rule3Holds(arg.entries, arg.target)

\* myconfig.txt.bak found for the target txt.b, which spans its last dot
C23_Witness ==
    /\ ret.done
    /\ ret.value
    /\ arg.fn = "file_found"
    /\ arg.entries = <<F(s_myconfig_txt_bak)>>
    /\ arg.target = <<"t", "x", "t", ".", "b">>

====
